---- MODULE Spec2Model ----
(***************************************************************************)
(* Model of ChirpedContraDC (Previous versions/ChirpedContraDC_v4.py).     *)
(*                                                                         *)
(* A device object is a record holding the attributes set by __init__.     *)
(* Lengths (period, w1, w2 and the chirp steps) are integers counted in    *)
(* tenths of the grain of np.round(x, 15), so that rounding to 15 decimals *)
(* is a real rounding (RoundGrain units) and both chirp steps are          *)
(* multiples of that grain, as the default 1e-9 and 2e-9 are.              *)
(* Real numbers in [0, 1] (window functions) are fixed-point integers with *)
(* FP units for 1.0; the float nan is the value NaN.                       *)
(* The numeric kernel (interpolated effective indices, matrix exponential, *)
(* port reordering) is kept symbolic: a propagation constant is the tuple  *)
(* of the arguments it is interpolated from, a single-pass spectrum is the *)
(* record of everything propagate read to compute it, and a spectrum in dB *)
(* is the bag of the single-pass spectra summed in it. What the kernel     *)
(* yields in numbers is an input of the actions that need it: the          *)
(* conditioning of the blocks switchTop inverts (P_GG) and the drop        *)
(* spectrum in dB that getPerformance reads (spectrum).                    *)
(***************************************************************************)
EXTENDS Integers, Sequences, FiniteSets, Bags, TLC

VARIABLES cdc1, cdc2, cdc3, lastCall, prevCall, raised, before, nConfig,
          P_GG, TransferMatrix, spectrum, performance, opt, Database

vars == <<cdc1, cdc2, cdc3, lastCall, prevCall, raised, before, nConfig,
          P_GG, TransferMatrix, spectrum, performance, opt, Database>>

(* What the numeric kernel, getPerformance, the optimizer and the chirp    *)
(* database add to the state of the devices.                               *)
numerics == <<P_GG, TransferMatrix, spectrum, performance, opt, Database>>

(* ------------------------------ bounds --------------------------------- *)

MaxNSeg == 5

MaxStages == 3

MaxReconfig == 2

MaxSummed == 4

FP == 1000

ExpOrder == 24

resolution == 3

MaxPropagated == 3

MaxOptimized == 3

(* ------------------------- program constants --------------------------- *)

period_chirp_step == 20

w_chirp_step == 10

RoundGrain == 10

T == 300

NaN == -1000000000

(* ---------------------------- Python values ---------------------------- *)

None == [isNone |-> TRUE, v |-> <<>>]

(* optimizeParams was never entered. *)
Idle ==
    [ pc |-> "idle", caller |-> "none", calls |-> 0, target_wvl |-> 0,
      wvl_range |-> <<0, 0>>, candidate |-> None, dummy |-> None,
      evaluated |-> FALSE, error |-> 0, new_error |-> 0, iters |-> 0,
      performance |-> None, ret |-> <<>>, exc |-> "none" ]

Some(x) == [isNone |-> FALSE, v |-> x]

Float(x) == [isList |-> FALSE, v |-> <<x>>]

List(s) == [isList |-> TRUE, v |-> s]

Min2(a, b) == IF a <= b THEN a ELSE b

SeqMin(s) == CHOOSE x \in {s[i] : i \in 1..Len(s)} : \A j \in 1..Len(s) : x <= s[j]

SeqMax(s) == CHOOSE x \in {s[i] : i \in 1..Len(s)} : \A j \in 1..Len(s) : x >= s[j]

Head0(s) == s[1]

Last(s) == s[Len(s)]

Reverse(s) == [i \in 1..Len(s) |-> s[Len(s) + 1 - i]]

Take(s, n) == SubSeq(s, 1, Min2(n, Len(s)))

(* Python round() on a quotient and np.round: round half to even. *)
RoundHalfEven(num, den) ==
    LET q == num \div den
        r == num % den
    IN  IF 2 * r < den THEN q
        ELSE IF 2 * r > den THEN q + 1
        ELSE IF q % 2 = 0 THEN q ELSE q + 1

(* np.round(x, 15) *)
Round15(x) == RoundHalfEven(x, RoundGrain) * RoundGrain

(* np.exp(num/den) in fixed point: power series for a positive argument,   *)
(* its reciprocal for a negative one; below exp(-7) < 1/FP it rounds to 0. *)
RECURSIVE ExpSeries(_, _, _, _, _)
ExpSeries(num, den, k, term, acc) ==
    IF k > ExpOrder \/ term = 0 THEN acc
    ELSE LET t == (term * num) \div (den * k)
         IN  ExpSeries(num, den, k + 1, t, acc + t)

ExpFix(num, den) ==
    IF num >= 0 THEN ExpSeries(num, den, 1, FP, FP)
    ELSE IF -num > 7 * den THEN 0
    ELSE (FP * FP) \div ExpSeries(-num, den, 1, FP, FP)

(* ------------------------------ __init__ ------------------------------- *)

ChirpedContraDC(N, period, a, apod_shape, kappa, N_seg, stages, w1, w2) ==
    [ N |-> N, period |-> period, a |-> a, apod_shape |-> apod_shape,
      kappa |-> kappa, N_seg |-> N_seg, stages |-> stages, w1 |-> w1, w2 |-> w2,
      target_wvl |-> None,
      apod_profile |-> None, period_profile |-> None,
      w1_profile |-> None, w2_profile |-> None, T_profile |-> None,
      beta1_profile |-> None, beta2_profile |-> None,
      thru |-> None, drop |-> None,
      is_simulated |-> FALSE ]

(* ---------------------------- getApodProfile --------------------------- *)

(* kappa_apodG[n] = exp(-a*((n+0.5) - 0.5*N_seg)**2 / N_seg**2), n 0-based *)
kappa_apodG(self) ==
    [i \in 1..self.N_seg |->
        ExpFix(-(self.a * (2 * i - 1 - self.N_seg) * (2 * i - 1 - self.N_seg)),
               4 * self.N_seg * self.N_seg)]

(* (ApoFunc-min)/(max-min): 0/0 is nan *)
Normalize(ApoFunc) ==
    LET lo == SeqMin(ApoFunc)
        hi == SeqMax(ApoFunc)
    IN  [i \in 1..Len(ApoFunc) |->
            IF hi = lo THEN NaN ELSE ((ApoFunc[i] - lo) * FP) \div (hi - lo)]

(* np.interp(n_apodization, np.linspace(0, N_seg, N_seg), profile), with   *)
(* abscissae scaled by 2*(N_seg-1): x = (2n+1)(N_seg-1), xp[i] = 2*i*N_seg *)
Interp(profile) ==
    LET n == Len(profile)
        xp(i) == 2 * i * n
        at(k) ==
            LET x == (2 * k + 1) * (n - 1)
                i == CHOOSE j \in 0..(n - 2) :
                        /\ xp(j) <= x
                        /\ (j < n - 2 => x < xp(j + 1))
            IN  IF profile[i + 1] = NaN \/ profile[i + 2] = NaN THEN NaN
                ELSE profile[i + 1]
                     + ((profile[i + 2] - profile[i + 1]) * (x - xp(i))) \div (2 * n)
    IN  [k1 \in 1..n |-> IF n = 1 THEN profile[1] ELSE at(k1 - 1)]

Scale(kappa, x) == IF x = NaN THEN NaN ELSE (kappa * x) \div FP

ZeroFirstOnly(s) == [i \in 1..Len(s) |-> IF i = 1 THEN 0 ELSE s[i]]

(* lines 276-277: apod_profile[0] = 0; apod_profile[-1] = 0 *)
ZeroEnds(s) == [i \in 1..Len(s) |-> IF i = 1 \/ i = Len(s) THEN 0 ELSE s[i]]

GaussianUniformZeroed(self) == ZeroEnds([i \in 1..self.N_seg |-> self.kappa])

GaussianUniform(self) == [i \in 1..self.N_seg |-> self.kappa]

GaussianWindowed(self) ==
    LET profile == Interp(Normalize(kappa_apodG(self)))
    IN  ZeroEnds([i \in 1..self.N_seg |-> Scale(self.kappa, profile[i])])

(* apod[z] = 1/2*(1 + tanh(3*(1 - 2*|2z/N_seg|**2))) = E/(E+1),            *)
(* E = exp(6*(N_seg**2 - 8 z**2)/N_seg**2)                                 *)
TanhWindow(self) ==
    [i \in 1..self.N_seg |->
        LET z == i - 1
            E == ExpFix(6 * (self.N_seg * self.N_seg - 8 * z * z),
                        self.N_seg * self.N_seg)
        IN  (FP * E) \div (E + FP)]

(* np.append(np.flip(apod[0:int(size/2)]), apod[0:int(size/2)]) * kappa *)
TanhMirrored(self) ==
    LET apod == TanhWindow(self)
        half == SubSeq(apod, 1, Len(apod) \div 2)
        both == Reverse(half) \o half
    IN  [i \in 1..Len(both) |-> Scale(self.kappa, both[i])]

(* min(ApoFunc) of an empty array (line 259) *)
ApodError(self) ==
    IF self.apod_shape = "gaussian" /\ self.a # 0 /\ self.N_seg = 0
    THEN "ValueError"
    ELSE "none"

getApodProfile(self) ==
    IF self.apod_shape = "gaussian"
    THEN IF self.a = 0
         THEN [self EXCEPT !.apod_profile = Some(GaussianUniform(self))]
         ELSE [self EXCEPT !.apod_profile = Some(GaussianWindowed(self))]
    ELSE IF self.apod_shape = "tanh"
    THEN [self EXCEPT !.apod_profile = Some(TanhMirrored(self))]
    ELSE self

(* ---------------------------- getChirpProfile -------------------------- *)

(* isinstance(x, float): x = [x] *)
ToList(x) == IF x.isList THEN x ELSE List(x.v)

(* np.arange(start, stop, step) with stop = stop100/100 *)
RECURSIVE Arange(_, _, _)
Arange(start, stop100, step) ==
    IF 100 * start < stop100
    THEN <<start>> \o Arange(start + step, stop100, step)
    ELSE <<>>

valid_periods(self) ==
    Arange(Head0(self.period.v),
           100 * Last(self.period.v) + period_chirp_step,
           period_chirp_step)

(* np.repeat(s, r) *)
Repeat(s, r) ==
    [i \in 1..(Len(s) * r) |-> s[((i - 1) \div r) + 1]]

(* while np.size(profile) < N_seg: profile = np.append(profile, last) *)
PadTo(s, n, last) ==
    [i \in 1..(IF Len(s) < n THEN n ELSE Len(s)) |-> IF i <= Len(s) THEN s[i] ELSE last]

(* period_profile[:N_seg+1] *)
Truncate(s, N_seg) == Take(s, N_seg + 1)

PeriodChirp(self) ==
    LET valid    == valid_periods(self)
        repeated == Repeat(valid, RoundHalfEven(self.N_seg, Len(valid)))
        padded   == PadTo(repeated, self.N_seg, Last(valid))
        rounded  == [i \in 1..Len(padded) |-> Round15(padded[i])]
    IN  Truncate(rounded, self.N_seg)

(* np.linspace(w[0], w[-1], N_seg)[i] as the fraction num/den *)
LinspaceNum(w, N_seg, i) ==
    IF N_seg = 1 THEN Head0(w) ELSE Head0(w) * (N_seg - 1) + i * (Last(w) - Head0(w))

LinspaceDen(N_seg) == IF N_seg = 1 THEN 1 ELSE N_seg - 1

(* np.round(np.round(linspace/w_chirp_step)*w_chirp_step, 15) *)
WidthChirp(w, N_seg) ==
    [i \in 1..N_seg |->
        Round15(RoundHalfEven(LinspaceNum(w, N_seg, i - 1),
                              LinspaceDen(N_seg) * w_chirp_step) * w_chirp_step)]

getChirpProfile(self) ==
    [self EXCEPT !.period = ToList(self.period),
                 !.period_profile = Some(PeriodChirp(self)),
                 !.w1 = ToList(self.w1),
                 !.w1_profile = Some(WidthChirp(self.w1.v, self.N_seg)),
                 !.w2 = ToList(self.w2),
                 !.w2_profile = Some(WidthChirp(self.w2.v, self.N_seg))]

(* --------------------------- getPropConstants -------------------------- *)

(* The value interpolated for mode m at wavelength sample i from the       *)
(* widths of one segment, plus the thermal term of that segment.           *)
Beta(m, i, w1j, w2j, Tj) == <<m, i, w1j, w2j, Tj>>

(* an entry of np.zeros(...) *)
Zero == <<0, 0, 0, 0, 0>>

Zeros(rows, cols) == [i \in 1..rows |-> [j \in 1..cols |-> Zero]]

BetaTable(self, m) ==
    [i \in 1..resolution |->
        [j \in 1..self.N_seg |->
            Beta(m, i, self.w1_profile.v[j], self.w2_profile.v[j], self.T_profile.v[j])]]

getPropConstants(self) ==
    LET s1 == IF self.T_profile.isNone
              THEN [self EXCEPT !.T_profile = Some([j \in 1..self.N_seg |-> T])]
              ELSE self
        zeroed == [s1 EXCEPT !.beta1_profile = Some(Zeros(resolution, s1.N_seg)),
                             !.beta2_profile = Some(Zeros(resolution, s1.N_seg))]
    IN  IF s1.w1_profile.isNone \/ s1.w2_profile.isNone
        THEN [self |-> zeroed, exc |-> "TypeError"]
        ELSE IF \/ Len(s1.T_profile.v) < s1.N_seg
                \/ Len(s1.w1_profile.v) < s1.N_seg
                \/ Len(s1.w2_profile.v) < s1.N_seg
        THEN [self |-> zeroed, exc |-> "IndexError"]
        ELSE [self |-> [s1 EXCEPT !.beta1_profile = Some(BetaTable(s1, 1)),
                                  !.beta2_profile = Some(BetaTable(s1, 2))],
              exc |-> "none"]

(* ------------------------------- propagate ----------------------------- *)

(* Everything one pass of propagate reads: the spectrum it stores is a     *)
(* function of these values only.                                          *)
SinglePass(self, port) ==
    [ port   |-> port,
      N      |-> self.N,
      N_seg  |-> self.N_seg,
      apod   |-> Take(self.apod_profile.v, self.N_seg),
      period |-> Take(self.period_profile.v, self.N_seg),
      beta1  |-> [i \in 1..resolution |-> Take(self.beta1_profile.v[i], self.N_seg)],
      beta2  |-> [i \in 1..resolution |-> Take(self.beta2_profile.v[i], self.N_seg)] ]

(* The first subscript that fails in the loop of lines 521-559, if any;   *)
(* with no segment the loop body never runs and line 562 reads a P that   *)
(* was never assigned.                                                     *)
PropagateError(self) ==
    IF self.N_seg = 0 THEN "UnboundLocalError"
    ELSE IF self.period_profile.isNone THEN "TypeError"
    ELSE IF Len(self.period_profile.v) = 0 THEN "IndexError"
    ELSE IF self.apod_profile.isNone THEN "TypeError"
    ELSE IF self.beta1_profile.isNone \/ self.beta2_profile.isNone THEN "AttributeError"
    ELSE IF \/ Len(self.period_profile.v) < self.N_seg
            \/ Len(self.apod_profile.v) < self.N_seg
            \/ Len(self.beta1_profile.v) < resolution
            \/ Len(self.beta2_profile.v) < resolution
            \/ \E i \in 1..Min2(resolution, Len(self.beta1_profile.v)) :
                    Len(self.beta1_profile.v[i]) < self.N_seg
            \/ \E i \in 1..Min2(resolution, Len(self.beta2_profile.v)) :
                    Len(self.beta2_profile.v[i]) < self.N_seg
    THEN "IndexError"
    ELSE "none"

propagate(self) ==
    IF PropagateError(self) # "none"
    THEN [self |-> self, exc |-> PropagateError(self)]
    ELSE [self |-> [self EXCEPT !.thru = Some(SetToBag({SinglePass(self, "thru")})),
                                !.drop = Some(SetToBag({SinglePass(self, "drop")})),
                                !.is_simulated = TRUE],
          exc |-> "none"]

(* ------------------------------ flipProfiles --------------------------- *)

(* np.flip(m) with no axis: every axis is reversed *)
Roll1(s) == [i \in 1..Len(s) |-> s[(i % Len(s)) + 1]]

Flip1(s) == Reverse(s)

Flip2(m) == Reverse([i \in 1..Len(m) |-> Reverse(m[i])])

flipProfiles(self) ==
    IF self.beta1_profile.isNone \/ self.beta2_profile.isNone
    THEN [self |-> self, exc |-> "AttributeError"]
    ELSE [self |-> [self EXCEPT !.beta1_profile = Some(Flip2(self.beta1_profile.v)),
                                !.beta2_profile = Some(Flip2(self.beta2_profile.v)),
                                !.period_profile =
                                    IF self.period_profile.isNone THEN None
                                    ELSE Some(Flip1(self.period_profile.v))],
          exc |-> "none"]

(* -------------------------------- cascade ------------------------------ *)

(* for _ in range(stages): self.x = self.x + (x2 if _%2 == 0 else x1) *)
RECURSIVE SumStages(_, _, _, _, _)
SumStages(acc, x1, x2, i, stages) ==
    IF i >= stages THEN acc
    ELSE SumStages(acc (+) (IF i % 2 = 0 THEN x2 ELSE x1), x1, x2, i + 1, stages)

CascadeAlways(self) == self.stages >= 1

CascadeNeeded(self) == self.stages > 1

cascade(self) ==
    IF ~CascadeNeeded(self) THEN [self |-> self, exc |-> "none"]
    ELSE IF self.thru.isNone \/ self.drop.isNone
    THEN [self |-> self, exc |-> "AttributeError"]
    ELSE LET flipped == flipProfiles(self)
             second  == propagate(flipped.self)
         IN  IF flipped.exc # "none" THEN flipped
             ELSE IF second.exc # "none" THEN second
             ELSE LET thru1 == self.thru.v
                      drop1 == self.drop.v
                      thru2 == second.self.thru.v
                      drop2 == second.self.drop.v
                      summed == [second.self EXCEPT
                                    !.thru = Some(SumStages(thru2, thru1, thru2, 0, self.stages)),
                                    !.drop = Some(SumStages(drop2, drop1, drop2, 0, self.stages))]
                  IN  flipProfiles(summed)

(* ------------------------------- simulate ------------------------------ *)

simulate(self) ==
    LET s1 == IF self.apod_profile.isNone THEN getApodProfile(self) ELSE self
        s2 == IF s1.w1_profile.isNone THEN getChirpProfile(s1) ELSE s1
        g  == getPropConstants(s2)
        p  == propagate(g.self)
    IN  IF self.apod_profile.isNone /\ ApodError(self) # "none"
        THEN [self |-> self, exc |-> ApodError(self)]
        ELSE IF g.exc # "none" THEN g
        ELSE IF p.exc # "none" THEN p
        ELSE cascade(p.self)

(* ------------------------------- __add__ ------------------------------- *)

(* Attributes defined with @property and no setter (lines 94-141). *)
ReadOnlyProperties ==
    {"_wavelength", "_period", "_kappa", "_apod_profile", "_w1", "_w2",
     "_period_profile", "_w1_profile", "_w2_profile", "wavelength", "c", "l_seg"}

(* Attributes a method assigns on self; __add__ reads z_seg, which none    *)
(* of them sets.                                                           *)
InstanceAttributes ==
    {"N", "period", "a", "kappa", "T", "resolution", "N_seg", "alpha", "stages",
     "wvl_range", "w1", "w2", "target_wvl", "apod_shape", "period_chirp_step",
     "w_chirp_step", "_antiRefCoeff", "apod_profile", "period_profile",
     "w1_profile", "w2_profile", "T_profile", "is_simulated", "units",
     "n1_profile", "n2_profile", "beta1_profile", "beta2_profile",
     "E_thru", "thru", "E_drop", "drop", "TransferMatrix", "group_delay",
     "performance", "gds_pos", "gds_half_p", "gds_w"}

(* The operands after lines 634-641. *)
Materialize(cdc) ==
    LET c1 == IF cdc.apod_profile.isNone THEN getApodProfile(cdc) ELSE cdc
    IN  IF c1.period_profile.isNone THEN getChirpProfile(c1) ELSE c1

(* cdc3 after lines 632-648. *)
Concatenate(a, b) ==
    [a EXCEPT !.apod_profile = Some(a.apod_profile.v \o b.apod_profile.v),
              !.period_profile = Some(a.period_profile.v \o b.period_profile.v),
              !.w1_profile = Some(a.w1_profile.v \o b.w1_profile.v),
              !.w2_profile = Some(a.w2_profile.v \o b.w2_profile.v),
              !.N = a.N + b.N,
              !.N_seg = a.N_seg + b.N_seg]

(* line 649 assigns cdc3.l_seg, line 650 reads cdc1.z_seg *)
add(a, b) ==
    LET m1 == Materialize(a)
        m2 == Materialize(b)
    IN  IF "l_seg" \in ReadOnlyProperties \/ "z_seg" \notin InstanceAttributes
        THEN [cdc1 |-> m1, cdc2 |-> m2, cdc3 |-> None, exc |-> "AttributeError"]
        ELSE [cdc1 |-> m1, cdc2 |-> m2, cdc3 |-> Some(Concatenate(m1, m2)),
              exc |-> "none"]

(* ------------------------- configurations ------------------------------ *)

NSegs == 1..MaxNSeg

Stages == 1..MaxStages

Shapes == {"gaussian", "tanh"}

As == {-2, 0, 1, 12}

Kappas == {48, 100}

(* scalar periods and [start, end] with start <= end; 33 and 30 are off    *)
(* the period step grid, 33 is off the rounding grain too                  *)
Periods ==
    {Float(20), Float(33), List(<<20, 20>>), List(<<20, 40>>), List(<<20, 60>>),
     List(<<30, 50>>), List(<<20, 100>>), List(<<33, 60>>)}

Widths == {Float(50), Float(55), List(<<50, 70>>), List(<<44, 61>>)}

Widths2 == {Float(40), List(<<47, 40>>)}

Configs ==
    { ChirpedContraDC(1000, p, a, sh, k, n, 1, w1, w2) :
        p \in Periods, a \in As, sh \in Shapes, k \in Kappas, n \in NSegs,
        w1 \in Widths, w2 \in Widths2 }

(* ------------------------------- actions ------------------------------- *)

Called(name, exc) ==
    /\ lastCall' = name
    /\ prevCall' = lastCall
    /\ raised' = exc
    /\ before' = cdc1

GetApodProfile ==
    /\ cdc1' = getApodProfile(cdc1)
    /\ Called("getApodProfile", "none")
    /\ UNCHANGED <<cdc2, cdc3, nConfig, numerics>>

GetChirpProfile ==
    /\ cdc1' = getChirpProfile(cdc1)
    /\ Called("getChirpProfile", "none")
    /\ UNCHANGED <<cdc2, cdc3, nConfig, numerics>>

Simulate ==
    /\ cdc1' = simulate(cdc1).self
    /\ Called("simulate", simulate(cdc1).exc)
    /\ UNCHANGED <<cdc2, cdc3, nConfig, numerics>>

FlipProfiles ==
    /\ cdc1' = flipProfiles(cdc1).self
    /\ Called("flipProfiles", flipProfiles(cdc1).exc)
    /\ UNCHANGED <<cdc2, cdc3, nConfig, numerics>>

(* cascade() called again on its own result adds to the stored spectra     *)
(* without end; the caller stops once MaxSummed spectra are summed.        *)
Cascade ==
    /\ cdc1.thru.isNone \/ BagCardinality(cdc1.thru.v) <= MaxSummed
    /\ cdc1' = cascade(cdc1).self
    /\ Called("cascade", cascade(cdc1).exc)
    /\ UNCHANGED <<cdc2, cdc3, nConfig, numerics>>

Add ==
    /\ cdc1' = add(cdc1, cdc2).cdc1
    /\ cdc2' = add(cdc1, cdc2).cdc2
    /\ cdc3' = add(cdc1, cdc2).cdc3
    /\ Called("add", add(cdc1, cdc2).exc)
    /\ UNCHANGED <<nConfig, numerics>>

(* The caller assigns a new value to one configuration attribute. *)
SetConfig ==
    /\ nConfig < MaxReconfig
    /\ \/ \E x \in {Float(20), List(<<20, 40>>)} : x # cdc1.period /\ cdc1' = [cdc1 EXCEPT !.period = x]
       \/ \E x \in {Float(50), List(<<50, 70>>)} : x # cdc1.w1 /\ cdc1' = [cdc1 EXCEPT !.w1 = x]
       \/ \E x \in Widths2 : x # cdc1.w2 /\ cdc1' = [cdc1 EXCEPT !.w2 = x]
       \/ \E x \in Kappas : x # cdc1.kappa /\ cdc1' = [cdc1 EXCEPT !.kappa = x]
       \/ \E x \in {0, 12} : x # cdc1.a /\ cdc1' = [cdc1 EXCEPT !.a = x]
       \/ \E x \in Shapes : x # cdc1.apod_shape /\ cdc1' = [cdc1 EXCEPT !.apod_shape = x]
       \/ \E x \in NSegs : x # cdc1.N_seg /\ cdc1' = [cdc1 EXCEPT !.N_seg = x]
    /\ nConfig' = nConfig + 1
    /\ Called("setConfig", "none")
    /\ UNCHANGED <<cdc2, cdc3, numerics>>

(* ---------------------------- specifications --------------------------- *)

FreshCalls ==
    /\ cdc3 = None
    /\ lastCall = "__init__"
    /\ prevCall = "__init__"
    /\ raised = "none"
    /\ before = cdc1
    /\ nConfig = 0

(* Nothing propagated, measured, optimized or stored yet. *)
FreshNumerics ==
    /\ P_GG = <<>>
    /\ TransferMatrix = None
    /\ spectrum = None
    /\ performance = None
    /\ opt = Idle
    /\ Database = <<>>

Fresh == FreshCalls /\ FreshNumerics

(* The profile builders applied to every configuration. *)
InitProfiles ==
    /\ cdc1 \in Configs
    /\ cdc2 = ChirpedContraDC(500, Float(20), 12, "gaussian", 48, 2, 1, Float(50), Float(40))
    /\ Fresh

NextProfiles == GetApodProfile \/ GetChirpProfile

SpecProfiles == InitProfiles /\ [][NextProfiles]_vars

(* A device that is simulated, reconfigured and simulated again. *)
InitReconfig ==
    /\ cdc1 \in { ChirpedContraDC(1000, Float(20), 12, "gaussian", 48, n, s, Float(50), Float(40)) :
                    n \in NSegs, s \in {1, 2} }
    /\ cdc2 = ChirpedContraDC(500, Float(20), 12, "gaussian", 48, 2, 1, Float(50), Float(40))
    /\ Fresh

NextReconfig == SetConfig \/ Simulate

SpecReconfig == InitReconfig /\ [][NextReconfig]_vars

(* Two devices: simulation, flipping, cascading and concatenation. *)
Init ==
    /\ cdc1 \in { ChirpedContraDC(1000, p, 12, sh, 48, n, s, List(<<50, 70>>), Float(40)) :
                    p \in {Float(20), List(<<20, 40>>)}, sh \in Shapes,
                    n \in NSegs, s \in Stages }
    /\ cdc2 \in { ChirpedContraDC(500, Float(20), 12, "gaussian", 100, n, 1, Float(50), Float(40)) :
                    n \in {2, 3} }
    /\ Fresh

Next == Simulate \/ FlipProfiles \/ Cascade \/ Add

Spec == Init /\ [][Next]_vars

(* ------------------- propagate: the numeric kernel --------------------- *)

(* The matrix of one segment, P0 of line 549, as everything it is computed *)
(* from. l_seg and l_0 are counted in units of 1/N_seg (line 531 divides   *)
(* N by N_seg).                                                            *)
SegmentMatrix(self, ii, n, l_0) ==
    [ beta1    |-> self.beta1_profile.v[ii][n],
      beta2    |-> self.beta2_profile.v[ii][n],
      period   |-> self.period_profile.v[n],
      kappa_12 |-> self.apod_profile.v[n],
      l_seg    |-> self.N * self.period_profile.v[n],
      l_0      |-> l_0 ]

(* A product of matrices is the sequence of its factors, leftmost first. *)
MatMulSwapped(a, b) == b \o a

MatMul(a, b) == a \o b

(* for n in range(self.N_seg), lines 528-559, from segment n on *)
RECURSIVE SegmentLoop(_, _, _, _, _)
SegmentLoop(self, ii, n, P, l_0) ==
    IF n > self.N_seg THEN P
    ELSE LET P0 == <<SegmentMatrix(self, ii, n, l_0)>>
             P1 == IF n = 1 THEN P0 ELSE MatMul(P0, P)
         IN  SegmentLoop(self, ii, n + 1, P1, l_0 + self.N * self.period_profile.v[n])

(* for ii in range(self.resolution), lines 521-562: P is a local that      *)
(* lives on from one wavelength sample to the next, l_0 starts at 0.       *)
RECURSIVE WavelengthLoop(_, _, _, _)
WavelengthLoop(self, ii, P, LeftRightTransferMatrix) ==
    IF ii > resolution THEN LeftRightTransferMatrix
    ELSE LET Pii == SegmentLoop(self, ii, 1, P, 0)
         IN  WavelengthLoop(self, ii + 1, Pii, Append(LeftRightTransferMatrix, Pii))

(* What np.linalg.matrix_power(P_GG, -1) meets in switchTop. *)
Conditionings == {"regular", "ill-conditioned", "singular"}

(* switchTop is called twice for every wavelength sample: on P (line 565)  *)
(* and on the reordered P2 (line 574, its result stays local).             *)
(* np.linalg raises LinAlgError on a singular block and returns whatever   *)
(* the elimination yields on an ill-conditioned one.                       *)
switchTop(cond) == IF cond = "singular" THEN "LinAlgError" ELSE "none"

SwitchTopError(pgg) ==
    IF \E ii \in 1..resolution :
            switchTop(pgg[ii][1]) # "none" \/ switchTop(pgg[ii][2]) # "none"
    THEN "LinAlgError"
    ELSE "none"

(* propagate with the conditioning pgg[ii] of the two blocks inverted at   *)
(* sample ii: the results are stored after the loop only (lines 590-599).  *)
propagateKernel(self, pgg) ==
    IF PropagateError(self) # "none"
    THEN [self |-> self, TransferMatrix |-> None, exc |-> PropagateError(self)]
    ELSE IF SwitchTopError(pgg) # "none"
    THEN [self |-> self, TransferMatrix |-> None, exc |-> SwitchTopError(pgg)]
    ELSE [self |-> propagate(self).self,
          TransferMatrix |-> Some(WavelengthLoop(self, 1, <<>>, <<>>)),
          exc |-> "none"]

(* The blocks are regular at every sample but ii, where the one taken from *)
(* P is c1 and the one taken from P2 is c2.                                *)
Conditioning(ii, c1, c2) ==
    [k \in 1..resolution |-> IF k = ii THEN <<c1, c2>> ELSE <<"regular", "regular">>]

(* propagate(bar) called on its own *)
Propagate ==
    /\ \E ii \in 1..resolution, c1 \in Conditionings, c2 \in Conditionings :
        LET pgg == Conditioning(ii, c1, c2) IN
        /\ P_GG' = pgg
        /\ cdc1' = propagateKernel(cdc1, pgg).self
        /\ TransferMatrix' = IF propagateKernel(cdc1, pgg).exc = "none"
                             THEN propagateKernel(cdc1, pgg).TransferMatrix
                             ELSE TransferMatrix
        /\ Called("propagate", propagateKernel(cdc1, pgg).exc)
    /\ UNCHANGED <<cdc2, cdc3, nConfig, spectrum, performance, opt, Database>>

(* Devices whose profiles and propagation constants are built. *)
Prepared(c) == getPropConstants(getChirpProfile(getApodProfile(c))).self

InitPropagate ==
    /\ cdc1 \in { Prepared(ChirpedContraDC(1000, List(<<20, 40>>), 12, sh, 48, n, 1,
                                           List(<<50, 70>>), Float(40))) :
                    sh \in Shapes, n \in 1..MaxPropagated }
    /\ cdc2 = ChirpedContraDC(500, Float(20), 12, "gaussian", 48, 2, 1, Float(50), Float(40))
    /\ cdc3 = None
    /\ lastCall = "getPropConstants"
    /\ prevCall = "getChirpProfile"
    /\ raised = "none"
    /\ before = cdc1
    /\ nConfig = 0
    /\ FreshNumerics

NextPropagate == Propagate \/ FlipProfiles

SpecPropagate == InitPropagate /\ [][NextPropagate]_vars

(* ----------------------- invalid configurations ------------------------ *)

(* __init__ stores every argument as given (lines 35-57): a device can be  *)
(* built with no segment or with a shape getApodProfile does not know.     *)
InvalidShapes == {"square"}

InitInvalid ==
    /\ cdc1 \in { ChirpedContraDC(1000, Float(20), a, sh, 48, n, s, Float(50), Float(40)) :
                    a \in {0, 12}, sh \in Shapes \cup InvalidShapes,
                    n \in 0..MaxNSeg, s \in {1, 2} }
    /\ cdc2 = ChirpedContraDC(500, Float(20), 12, "gaussian", 48, 2, 1, Float(50), Float(40))
    /\ Fresh

NextInvalid == Simulate \/ FlipProfiles

SpecInvalid == InitInvalid /\ [][NextInvalid]_vars

(* ----------------------------- getPerformance -------------------------- *)

(* Wavelengths are integers counted in picometres and powers in            *)
(* thousandths of a dB, so that np.round(x, 2) of a value in nm or in dB   *)
(* is a real rounding, to Hundredth units. The power of a sample with zero *)
(* amplitude, 10*log10(0), is NegInf.                                      *)
NegInf == -2000000000

Hundredth == 10

ThreeDB == 3000

(* x - d in floating point: -inf stays -inf *)
Minus(x, d) == IF x = NegInf THEN NegInf ELSE x - d

(* self.wavelength = np.linspace(wvl_range[0], wvl_range[1], resolution),  *)
(* sample i (from 1) as a numerator over LinspaceDen(resolution)           *)
wavelength(wvl_range, i) ==
    IF resolution = 1 THEN wvl_range[1]
    ELSE wvl_range[1] * (resolution - 1) + (i - 1) * (wvl_range[2] - wvl_range[1])

(* Python's max(): the first element, replaced by each later one that      *)
(* compares greater.                                                       *)
RECURSIVE PyMax(_, _, _)
PyMax(s, i, best) ==
    IF i > Len(s) THEN best
    ELSE PyMax(s, i + 1, IF s[i] > best THEN s[i] ELSE best)

(* The indices kept by the boolean mask self.drop > dropMax - 3 *)
Above3dB(drop, dropMax) == {i \in 1..Len(drop) : drop[i] > Minus(dropMax, ThreeDB)}

SetMin(S) == CHOOSE x \in S : \A y \in S : x <= y

SetMax(S) == CHOOSE x \in S : \A y \in S : x >= y

RECURSIVE SumOver(_, _)
SumOver(f, S) ==
    IF S = {} THEN 0
    ELSE LET x == SetMin(S) IN f[x] + SumOver(f, S \ {x})

(* The largest integer r in lo..hi with r * r <= x. *)
RECURSIVE Isqrt(_, _, _)
Isqrt(x, lo, hi) ==
    IF lo >= hi THEN lo
    ELSE LET mid == (lo + hi + 1) \div 2
         IN  IF mid * mid <= x THEN Isqrt(x, mid, hi) ELSE Isqrt(x, lo, mid - 1)

(* np.std(dropBand): the root of the mean squared deviation *)
Std(drop, band) ==
    LET n   == Cardinality(band)
        sum == SumOver(drop, band)
        dev == [i \in band |-> (n * drop[i] - sum) * (n * drop[i] - sum)]
    IN  Isqrt(SumOver(dev, band) \div n, 0, Min2(SumOver(dev, band), 40000)) \div n

PerformanceKeys == {"Ref. wvl", "BW", "Max ref.", "Avg ref.", "Std dev."}

(* lines 693-713 on a simulated device: sp holds its wvl_range and its     *)
(* drop spectrum in dB                                                     *)
getPerformance(sp) ==
    LET dropMax  == PyMax(sp.drop, 2, sp.drop[1])
        drop3dB  == Above3dB(sp.drop, dropMax)
        first    == wavelength(sp.wvl_range, SetMin(drop3dB))
        last     == wavelength(sp.wvl_range, SetMax(drop3dB))
        den      == LinspaceDen(resolution)
        n        == Cardinality(drop3dB)
    IN  IF drop3dB = {}
        THEN [performance |-> None, exc |-> "IndexError"]
        ELSE [performance |-> Some(
                [k \in PerformanceKeys |->
                    CASE k = "Ref. wvl" ->
                            <<RoundHalfEven(last + first, 2 * den * Hundredth) * Hundredth, "nm">>
                      [] k = "BW" ->
                            <<RoundHalfEven(last - first, den * Hundredth) * Hundredth, "nm">>
                      [] k = "Max ref." ->
                            <<RoundHalfEven(dropMax, Hundredth) * Hundredth, "dB">>
                      [] k = "Avg ref." ->
                            <<RoundHalfEven(SumOver(sp.drop, drop3dB), n * Hundredth) * Hundredth, "dB">>
                      [] k = "Std dev." ->
                            <<RoundHalfEven(Std(sp.drop, drop3dB), Hundredth) * Hundredth, "dB">>]),
              exc |-> "none"]

(* Drop spectra and wavelength windows of simulated devices. *)
DropValues == {NegInf, -40000, -3004, -3000, -2996, 0}

DropSpectra == [1..resolution -> DropValues]

WvlRanges == {<<1530000, 1580000>>, <<1530004, 1580000>>}

(* getPerformance() on the simulated device whose spectrum is `spectrum` *)
GetPerformance ==
    /\ ~spectrum.isNone
    /\ performance' = IF getPerformance(spectrum.v).exc = "none"
                      THEN getPerformance(spectrum.v).performance
                      ELSE performance
    /\ Called("getPerformance", getPerformance(spectrum.v).exc)
    /\ UNCHANGED <<cdc1, cdc2, cdc3, nConfig, P_GG, TransferMatrix, spectrum, opt, Database>>

InitPerformance ==
    /\ cdc1 = simulate(ChirpedContraDC(1000, Float(20), 12, "gaussian", 48, 3, 1,
                                       Float(50), Float(40))).self
    /\ cdc2 = ChirpedContraDC(500, Float(20), 12, "gaussian", 48, 2, 1, Float(50), Float(40))
    /\ cdc3 = None
    /\ lastCall = "simulate"
    /\ prevCall = "__init__"
    /\ raised = "none"
    /\ before = cdc1
    /\ nConfig = 0
    /\ P_GG = <<>>
    /\ TransferMatrix = None
    /\ spectrum \in { Some([wvl_range |-> r, drop |-> d]) : r \in WvlRanges, d \in DropSpectra }
    /\ performance = None
    /\ opt = Idle
    /\ Database = <<>>

NextPerformance == GetPerformance

SpecPerformance == InitPerformance /\ [][NextPerformance]_vars

(* ------------------------------ optimizeParams ------------------------- *)

(* In the optimizer the lengths count tenths of a nanometre (both chirp    *)
(* steps keep their values: 2 nm and 1 nm) and a wavelength counts         *)
(* picometres: LengthUnit picometres make one length unit, and Nanometre   *)
(* picometres one nanometre. The regression constants are kept to four     *)
(* digits: dlam_dp and dlam_dw in thousandths, p_0 in picometres.          *)
LengthUnit == 100

Nanometre == 1000

Thousandths == 1000

dlam_dp == 2853

p_0 == 642355

dlam_dw == 620

error0 == 20000

new_error0 == 10000

Window == 30000

N_dummy == 500

(* w + dw for a float or, element by element, for a list *)
AddWidth(w, dw) == [isList |-> w.isList, v |-> [i \in 1..Len(w.v) |-> w.v[i] + dw]]

(* np.round((target_wvl - p_0)/dlam_dp/period_chirp_step)*period_chirp_step *)
EstimatePeriod(target_wvl) ==
    RoundHalfEven((target_wvl - p_0) * Thousandths,
                  dlam_dp * period_chirp_step * LengthUnit) * period_chirp_step

(* np.round((target_wvl - dlam_dp*dummy.period - p_0)/dlam_dw, 9) *)
EstimateWidth(target_wvl, period) ==
    RoundHalfEven((target_wvl - (dlam_dp * period * LengthUnit) \div Thousandths - p_0)
                        * Thousandths,
                  dlam_dw * Nanometre) * (Nanometre \div LengthUnit)

(* lines 320-326: the shallow copy shares the profiles of self *)
Dummy(self, target_wvl) ==
    LET period == EstimatePeriod(target_wvl)
        dw     == EstimateWidth(target_wvl, period)
    IN  [self EXCEPT !.target_wvl = None,
                     !.N = N_dummy,
                     !.period = Float(period),
                     !.w1 = AddWidth(self.w1, dw),
                     !.w2 = AddWidth(self.w2, dw)]

(* The key of dummy.performance[0]: the integer 0, written as Python       *)
(* prints it; the keys of the dict are the strings of PerformanceKeys.     *)
Key0 == "0"

(* optimizeParams(target_wvl) up to the end of its first loop iteration:   *)
(* dummy is the copy of lines 320-329, sim the outcome of dummy.simulate() *)
(* and perf that of dummy.getPerformance() on the drop spectrum the        *)
(* simulation yields.                                                      *)
(* Line 337 subscripts the dict of getPerformance with 0 and then takes    *)
(* element 1, the unit, of a value: the iteration ends there in every run, *)
(* and lines 338-364 (comparison of the errors, width step, return) are    *)
(* never reached. The dummy is sampled at `resolution` wavelengths, as     *)
(* every device of the model is (line 329 sets its own 50).                *)
FirstIteration(target_wvl, wvl_range, dummy, sim, perf) ==
    LET frame == [ pc          |-> "raised",
                   caller      |-> "user",
                   calls       |-> 1,
                   target_wvl  |-> target_wvl,
                   wvl_range   |-> wvl_range,
                   candidate   |-> dummy,
                   dummy       |-> sim.self,
                   evaluated   |-> sim.exc = "none",
                   error       |-> new_error0,
                   new_error   |-> new_error0,
                   iters       |-> 1,
                   performance |-> None,
                   ret         |-> <<>>,
                   exc         |-> "none" ]
    IN  IF sim.exc # "none" THEN [frame EXCEPT !.exc = sim.exc]
        ELSE IF perf.exc # "none" THEN [frame EXCEPT !.exc = perf.exc]
        ELSE IF Key0 \notin DOMAIN perf.performance.v
        THEN [frame EXCEPT !.performance = perf.performance, !.exc = "KeyError"]
        ELSE [frame EXCEPT !.performance = perf.performance, !.exc = "TypeError"]

WvlRange(target_wvl) == <<target_wvl - Window, target_wvl + Window>>

optimizeParams(self, target_wvl, drop) ==
    FirstIteration(target_wvl, WvlRange(target_wvl), Dummy(self, target_wvl),
                   simulate(Dummy(self, target_wvl)),
                   getPerformance([wvl_range |-> WvlRange(target_wvl), drop |-> drop]))

(* ------------------------ chirp profile database ----------------------- *)

(* ID of lines 371-373: N_seg and the ends of target_wvl cut to whole      *)
(* nanometres by int()                                                     *)
ID(self) ==
    <<self.N_seg, Head0(self.target_wvl.v) \div Nanometre, Last(self.target_wvl.v) \div Nanometre>>

chirpIsKnown(self, db) == ID(self) \in DOMAIN db

(* np.savetxt writes one row per profile with 18 significant digits, which *)
(* np.loadtxt reads back exactly; a file of rows of one number is read     *)
(* back as three numbers, not three arrays.                                *)
Savetxt(rows) == rows

Loadtxt(file) ==
    IF Len(file[1]) = 1
    THEN [k \in 1..Len(file) |-> file[k][1]]
    ELSE file

saveChirp(self, db) ==
    [k \in DOMAIN db \cup {ID(self)} |->
        IF k = ID(self)
        THEN Savetxt(<<self.period_profile.v, self.w1_profile.v, self.w2_profile.v>>)
        ELSE db[k]]

fetchChirp(self, db) ==
    LET rows == Loadtxt(db[ID(self)])
    IN  [self EXCEPT !.period_profile = Some(rows[1]),
                     !.w1_profile = Some(rows[2]),
                     !.w2_profile = Some(rows[3])]

(* ref_wvl[n] of np.linspace(start_wvl, end_wvl, self.N_seg), n from 1 *)
ref_wvl(start_wvl, end_wvl, N_seg, n) ==
    RoundHalfEven(start_wvl * LinspaceDen(N_seg) + (n - 1) * (end_wvl - start_wvl),
                  LinspaceDen(N_seg))

SetItem(profile, n, x) == Some([profile.v EXCEPT ![n] = x])

(* for n in range(self.N_seg), lines 418-419, from segment n on, then      *)
(* saveChirp (line 427); an exception of optimizeParams ends the method.   *)
(* r is the outcome of the call of optimizeParams for segment n.           *)
RECURSIVE ChirpLoop(_, _, _, _, _, _, _)
RECURSIVE ChirpStep(_, _, _, _, _, _, _)
ChirpStep(self, db, start_wvl, end_wvl, n, drop, r) ==
    IF r.exc # "none"
    THEN [self |-> self, Database |-> db, opt |-> r, exc |-> r.exc]
    ELSE ChirpLoop([self EXCEPT
                        !.period_profile = SetItem(self.period_profile, n, r.ret[1]),
                        !.w1_profile = SetItem(self.w1_profile, n, r.ret[2]),
                        !.w2_profile = SetItem(self.w2_profile, n, r.ret[3])],
                   db, start_wvl, end_wvl, n + 1, drop, r)

ChirpLoop(self, db, start_wvl, end_wvl, n, drop, last) ==
    IF n > self.N_seg
    THEN [self |-> self, Database |-> saveChirp(self, db), opt |-> last, exc |-> "none"]
    ELSE ChirpStep(self, db, start_wvl, end_wvl, n, drop,
                   [optimizeParams(self, ref_wvl(start_wvl, end_wvl, self.N_seg, n), drop)
                        EXCEPT !.caller = "optimizeChirp", !.calls = n])

(* np.zeros(self.N_seg) *)
ZeroProfile(N_seg) == [j \in 1..N_seg |-> 0]

optimizeChirp(self, db, start_wvl, end_wvl, drop, last) ==
    IF self.target_wvl.isNone
    THEN [self |-> self, Database |-> db, opt |-> last, exc |-> "TypeError"]
    ELSE IF chirpIsKnown(self, db)
    THEN [self |-> fetchChirp(self, db), Database |-> db, opt |-> last, exc |-> "none"]
    ELSE ChirpLoop([self EXCEPT !.period_profile = Some(ZeroProfile(self.N_seg)),
                                !.w1_profile = Some(ZeroProfile(self.N_seg)),
                                !.w2_profile = Some(ZeroProfile(self.N_seg))],
                   db, start_wvl, end_wvl, 1, drop, last)

(* ------------------------- optimizer actions --------------------------- *)

Targets == {1550000, 1560400}

TargetRanges == {<<1540000, 1560000>>, <<1540700, 1560000>>}

(* Drop spectra of the dummy's simulations: no coupling at all, a peak at  *)
(* the first sample, a flat top.                                           *)
DummySpectra ==
    { [i \in 1..resolution |-> NegInf],
      [i \in 1..resolution |-> IF i = 1 THEN 0 ELSE -40000],
      [i \in 1..resolution |-> -2996] }

(* optimizeParams(target_wvl) called on the device *)
OptimizeParams ==
    /\ \E t \in Targets, d \in DummySpectra :
        \E r \in {optimizeParams(cdc1, t, d)} :
            /\ opt' = r
            /\ Called("optimizeParams", r.exc)
    /\ UNCHANGED <<cdc1, cdc2, cdc3, nConfig, P_GG, TransferMatrix, spectrum, performance, Database>>

(* optimizeChirp(target_wvl[0], target_wvl[-1]), as getChirpProfile calls  *)
(* it (line 459)                                                           *)
OptimizeChirp ==
    /\ \E d \in DummySpectra :
        \E r \in {optimizeChirp(cdc1, Database, Head0(cdc1.target_wvl.v),
                                Last(cdc1.target_wvl.v), d, opt)} :
            /\ cdc1' = r.self
            /\ Database' = r.Database
            /\ opt' = r.opt
            /\ Called("optimizeChirp", r.exc)
    /\ UNCHANGED <<cdc2, cdc3, nConfig, P_GG, TransferMatrix, spectrum, performance>>

(* Devices with a target range, new or already simulated without one, and  *)
(* a database that is empty or holds the profiles stored under the         *)
(* device's ID. A stored file of one-segment profiles is read back as      *)
(* three numbers that no later step can subscript: the stored entries are  *)
(* those of devices with at least two segments.                            *)
WithTarget(self, target_wvl) == [self EXCEPT !.target_wvl = Some(target_wvl)]

StoredChirp(self) ==
    saveChirp([self EXCEPT !.period_profile = Some([j \in 1..self.N_seg |-> 3160 + 20 * j]),
                           !.w1_profile = Some([j \in 1..self.N_seg |-> 5600]),
                           !.w2_profile = Some([j \in 1..self.N_seg |-> 4400])],
              <<>>)

InitOptimize ==
    /\ \E sh \in Shapes, n \in 1..MaxOptimized, tr \in TargetRanges :
        LET c == ChirpedContraDC(1000, Float(3180), 12, sh, 48, n, 1, Float(5600), Float(4400))
        IN  /\ cdc1 \in {WithTarget(c, tr), WithTarget(simulate(c).self, tr)}
            /\ Database \in {<<>>} \cup (IF n >= 2 THEN {StoredChirp(cdc1)} ELSE {})
    /\ cdc2 = ChirpedContraDC(500, Float(20), 12, "gaussian", 48, 2, 1, Float(50), Float(40))
    /\ FreshCalls
    /\ P_GG = <<>>
    /\ TransferMatrix = None
    /\ spectrum = None
    /\ performance = None
    /\ opt = Idle

NextOptimize == OptimizeParams \/ OptimizeChirp

SpecOptimize == InitOptimize /\ [][NextOptimize]_vars

(* ------------------------------- claims -------------------------------- *)

Built(p) == ~p.isNone

AllIn(s, lo, hi) == \A i \in 1..Len(s) : lo <= s[i] /\ s[i] <= hi

MultiplesOf(s, step) == \A i \in 1..Len(s) : s[i] % step = 0

(* C1: when a configuration field was changed after a simulate call, the   *)
(* next simulate call leaves the apodization and chirp profiles that the   *)
(* new configuration yields, not those of the earlier call.                *)
C1_RecomputedAfterReconfig ==
    (lastCall = "simulate" /\ prevCall = "setConfig" /\ before.is_simulated) =>
        /\ raised = "none"
        /\ cdc1.apod_profile = getApodProfile(cdc1).apod_profile
        /\ cdc1.period_profile = getChirpProfile(cdc1).period_profile
        /\ cdc1.w1_profile = getChirpProfile(cdc1).w1_profile
        /\ cdc1.w2_profile = getChirpProfile(cdc1).w2_profile

(* C2: with target_wvl = None, getChirpProfile leaves period_profile,      *)
(* w1_profile and w2_profile with exactly N_seg entries each.              *)
C2_ChirpLengths ==
    Built(cdc1.period_profile) =>
        /\ Len(cdc1.period_profile.v) = cdc1.N_seg
        /\ Len(cdc1.w1_profile.v) = cdc1.N_seg
        /\ Len(cdc1.w2_profile.v) = cdc1.N_seg

(* C3: for every N_seg >= 1 and both shapes, getApodProfile leaves         *)
(* apod_profile with exactly N_seg entries.                                *)
C3_ApodLength ==
    Built(cdc1.apod_profile) => Len(cdc1.apod_profile.v) = cdc1.N_seg

(* C4: gaussian apodization with a # 0: the first and the last entry of    *)
(* apod_profile are exactly 0 and every entry lies in [0, kappa].          *)
C4_GaussianZeroEnds ==
    (Built(cdc1.apod_profile) /\ cdc1.apod_shape = "gaussian" /\ cdc1.a # 0) =>
        /\ Head0(cdc1.apod_profile.v) = 0
        /\ Last(cdc1.apod_profile.v) = 0
        /\ AllIn(cdc1.apod_profile.v, 0, cdc1.kappa)

C4_Witness ==
    /\ lastCall = "getApodProfile"
    /\ cdc1.apod_shape = "gaussian" /\ cdc1.a # 0 /\ cdc1.N_seg >= 3
    /\ \E i \in 1..Len(cdc1.apod_profile.v) : cdc1.apod_profile.v[i] = cdc1.kappa

(* C5: gaussian apodization with a = 0: every entry of apod_profile, the   *)
(* first and the last included, equals kappa.                              *)
C5_UniformWhenAZero ==
    (Built(cdc1.apod_profile) /\ cdc1.apod_shape = "gaussian" /\ cdc1.a = 0) =>
        /\ Len(cdc1.apod_profile.v) = cdc1.N_seg
        /\ AllIn(cdc1.apod_profile.v, cdc1.kappa, cdc1.kappa)

C5_Witness ==
    /\ lastCall = "getApodProfile"
    /\ cdc1.apod_shape = "gaussian" /\ cdc1.a = 0 /\ cdc1.N_seg >= 3
    /\ Head0(cdc1.apod_profile.v) = cdc1.kappa
    /\ Last(cdc1.apod_profile.v) = cdc1.kappa

(* C6: with target_wvl = None, after getChirpProfile every period entry is *)
(* an integer multiple of period_chirp_step and every width entry is an    *)
(* integer multiple of w_chirp_step, whatever the start and end values.    *)
C6_OnStepGrid ==
    Built(cdc1.period_profile) =>
        /\ MultiplesOf(cdc1.period_profile.v, period_chirp_step)
        /\ MultiplesOf(cdc1.w1_profile.v, w_chirp_step)
        /\ MultiplesOf(cdc1.w2_profile.v, w_chirp_step)

(* C7: A + B returns a device with N = A.N + B.N, N_seg = A.N_seg +        *)
(* B.N_seg and apod_profile = A's apodization followed by B's.             *)
C7_AddReturnsConcatenation ==
    lastCall = "add" =>
        /\ raised = "none"
        /\ Built(cdc3)
        /\ cdc3.v.N = cdc1.N + cdc2.N
        /\ cdc3.v.N_seg = cdc1.N_seg + cdc2.N_seg
        /\ cdc3.v.apod_profile.v = cdc1.apod_profile.v \o cdc2.apod_profile.v

(* C8: a second flipProfiles right after a first one restores              *)
(* period_profile, beta1_profile and beta2_profile to their values before  *)
(* the first call.                                                         *)
C8_FlipTwiceRestores ==
    [][ ( /\ lastCall = "flipProfiles" /\ raised = "none"
          /\ lastCall' = "flipProfiles" /\ raised' = "none" ) =>
            /\ cdc1'.period_profile = before.period_profile
            /\ cdc1'.beta1_profile = before.beta1_profile
            /\ cdc1'.beta2_profile = before.beta2_profile ]_vars

C8_Witness ==
    /\ lastCall = "flipProfiles" /\ prevCall = "flipProfiles" /\ raised = "none"
    /\ Built(before.beta1_profile)
    /\ before.period_profile # cdc1.period_profile
    /\ before.beta1_profile # cdc1.beta1_profile

(* C9: with stages = 1, cascade changes nothing: thru, drop and all        *)
(* profiles stay as propagate produced them (one pass, not flipped).       *)
C9_SingleStageUnchanged ==
    /\ (lastCall = "cascade" /\ before.stages = 1) =>
            (raised = "none" /\ cdc1 = before)
    /\ (lastCall = "simulate" /\ raised = "none" /\ cdc1.stages = 1) =>
            /\ cdc1.thru.v = SetToBag({SinglePass(cdc1, "thru")})
            /\ cdc1.drop.v = SetToBag({SinglePass(cdc1, "drop")})
            /\ cdc1.beta1_profile.v = BetaTable(cdc1, 1)
            /\ cdc1.beta2_profile.v = BetaTable(cdc1, 2)
            /\ Built(before.period_profile) => cdc1.period_profile = before.period_profile

C9_Witness ==
    /\ lastCall = "cascade" /\ prevCall = "simulate"
    /\ cdc1.stages = 1 /\ cdc1.is_simulated
    /\ Len(cdc1.period_profile.v) >= 2
    /\ Head0(cdc1.period_profile.v) # Last(cdc1.period_profile.v)

(* C10: with stages = s > 1, after simulate (propagate, then cascade) the  *)
(* thru and the drop spectrum are each the sum of exactly s single-pass    *)
(* spectra, each the forward or the reversed one.                          *)
C10_SumOfStagesSpectra ==
    (lastCall = "simulate" /\ raised = "none" /\ cdc1.stages > 1) =>
        /\ BagCardinality(cdc1.thru.v) = cdc1.stages
        /\ BagCardinality(cdc1.drop.v) = cdc1.stages
        /\ BagToSet(cdc1.thru.v) \subseteq
              {SinglePass(cdc1, "thru"), SinglePass(flipProfiles(cdc1).self, "thru")}
        /\ BagToSet(cdc1.drop.v) \subseteq
              {SinglePass(cdc1, "drop"), SinglePass(flipProfiles(cdc1).self, "drop")}

(* C11: optimizeParams ends for every target wavelength: whenever a call   *)
(* of it is over, it has returned (period, w1, w2) or it has reported      *)
(* OptimizationNonConvergence.                                             *)
C11_OptimizerReturnsOrReports ==
    lastCall = "optimizeParams"
    => \/ raised = "none" /\ opt.pc = "returned" /\ Len(opt.ret) = 3
       \/ raised = "OptimizationNonConvergence"

InvalidConfiguration(self) == self.N_seg < 1 \/ self.apod_shape \notin Shapes

(* C12: simulate on a device with an invalid configuration (no segment, an *)
(* unsupported apodization shape) fails with a configuration error before  *)
(* any profile is built or any propagation step runs: the device is left   *)
(* as it was.                                                              *)
C12_InvalidConfigRejected ==
    (lastCall = "simulate" /\ InvalidConfiguration(before))
    => /\ raised = "ConfigurationError"
       /\ cdc1 = before

(* C13: when the back-back block inverted by switchTop is singular or      *)
(* ill-conditioned at some wavelength sample, propagate ends in the error  *)
(* NumericalSingularity and stores no result: thru, drop and is_simulated  *)
(* are left as they were.                                                  *)
C13_SingularityReported ==
    ( /\ lastCall = "propagate"
      /\ PropagateError(before) = "none"
      /\ \E ii \in 1..resolution : P_GG[ii][1] \in {"singular", "ill-conditioned"} )
    => /\ raised = "NumericalSingularity"
       /\ cdc1.thru = before.thru
       /\ cdc1.drop = before.drop
       /\ cdc1.is_simulated = before.is_simulated

(* C14: an optimizeChirp that finds no database entry under the device's   *)
(* ID calls the optimizer once per segment and then stores the entry; one  *)
(* that finds the entry loads period, w1 and w2 profiles of length N_seg   *)
(* from it and does not call the optimizer.                                *)
C14_ComputedOnceThenLoaded ==
    [][ lastCall' = "optimizeChirp"
        => IF chirpIsKnown(cdc1, Database)
           THEN /\ opt' = opt
                /\ Database' = Database
                /\ cdc1'.period_profile = Some(Database[ID(cdc1)][1])
                /\ cdc1'.w1_profile = Some(Database[ID(cdc1)][2])
                /\ cdc1'.w2_profile = Some(Database[ID(cdc1)][3])
                /\ Len(cdc1'.period_profile.v) = cdc1.N_seg
                /\ Len(cdc1'.w1_profile.v) = cdc1.N_seg
                /\ Len(cdc1'.w2_profile.v) = cdc1.N_seg
           ELSE /\ raised' = "none"
                /\ opt'.caller = "optimizeChirp"
                /\ opt'.calls = cdc1.N_seg
                /\ chirpIsKnown(cdc1', Database')
                /\ Len(Database'[ID(cdc1)][1]) = cdc1.N_seg ]_vars

(* C15: flipProfiles reverses the segment order only: afterwards row i of  *)
(* each propagation-constant table is the reversed row i of the table      *)
(* before, and the period profile is reversed; the wavelength index i is   *)
(* not reordered.                                                          *)
C15_FlipKeepsWavelengthIndex ==
    (lastCall = "flipProfiles" /\ raised = "none")
    => /\ \A i \in 1..Len(before.beta1_profile.v) :
            cdc1.beta1_profile.v[i] = Reverse(before.beta1_profile.v[i])
       /\ \A i \in 1..Len(before.beta2_profile.v) :
            cdc1.beta2_profile.v[i] = Reverse(before.beta2_profile.v[i])
       /\ Built(before.period_profile)
            => cdc1.period_profile.v = Reverse(before.period_profile.v)

(* C16: whenever optimizeParams has simulated a candidate, the period, w1  *)
(* and w2 profiles the simulation ran on are the ones built from the       *)
(* candidate's own period, w1 and w2.                                      *)
C16_SimulatedOnCandidateProfiles ==
    (opt.pc # "idle" /\ opt.evaluated)
    => /\ opt.dummy.period_profile = getChirpProfile(opt.candidate).period_profile
       /\ opt.dummy.w1_profile = getChirpProfile(opt.candidate).w1_profile
       /\ opt.dummy.w2_profile = getChirpProfile(opt.candidate).w2_profile

(* The length of the segments before segment n, in units of 1/N_seg. *)
RECURSIVE LengthBefore(_, _)
LengthBefore(self, n) ==
    IF n <= 1 THEN 0
    ELSE LengthBefore(self, n - 1) + self.N * self.period_profile.v[n - 1]

(* C17: for every wavelength sample the matrix propagate stores is the     *)
(* product P_(N_seg-1) * ... * P_1 * P_0 of the segment matrices of that   *)
(* sample alone, each with l_0 the length of the segments before it        *)
(* counted from 0.                                                         *)
C17_LeftProductPerSample ==
    (lastCall = "propagate" /\ raised = "none")
    => /\ Built(TransferMatrix)
       /\ Len(TransferMatrix.v) = resolution
       /\ \A ii \in 1..resolution :
            TransferMatrix.v[ii] =
                [k \in 1..before.N_seg |->
                    SegmentMatrix(before, ii, before.N_seg + 1 - k,
                                  LengthBefore(before, before.N_seg + 1 - k))]

C17_Witness ==
    /\ lastCall = "propagate"
    /\ raised = "none"
    /\ cdc1.N_seg >= 3
    /\ Len(TransferMatrix.v[resolution]) = cdc1.N_seg
    /\ TransferMatrix.v[resolution][1] # TransferMatrix.v[resolution][cdc1.N_seg]
    /\ TransferMatrix.v[1] # TransferMatrix.v[resolution]

(* The samples within 3 dB of the largest drop power. *)
Passband(drop) == {i \in 1..Len(drop) : SeqMax(drop) - drop[i] < ThreeDB}

(* C18: getPerformance on a simulated drop spectrum succeeds; its passband *)
(* holds every sample within 3 dB of the maximum, the peak among them; the *)
(* centre it reports is the midpoint of the smallest and the largest       *)
(* passband wavelength and the bandwidth their difference (both to 0.01    *)
(* nm), the bandwidth is >= 0 and the centre lies inside wvl_range.        *)
C18_PassbandCentreAndWidth ==
    lastCall = "getPerformance"
    => /\ raised = "none"
       /\ Built(performance)
       /\ LET sp  == spectrum.v
              pb  == Passband(sp.drop)
              lo  == wavelength(sp.wvl_range, SetMin(pb))
              hi  == wavelength(sp.wvl_range, SetMax(pb))
              den == LinspaceDen(resolution)
              ref == performance.v["Ref. wvl"][1]
              bw  == performance.v["BW"][1]
          IN  /\ pb # {}
              /\ \E i \in pb : sp.drop[i] = SeqMax(sp.drop)
              /\ ref = RoundHalfEven(lo + hi, 2 * den * Hundredth) * Hundredth
              /\ bw = RoundHalfEven(hi - lo, den * Hundredth) * Hundredth
              /\ bw >= 0
              /\ sp.wvl_range[1] <= ref /\ ref <= sp.wvl_range[2]

====
